---------------------------- MODULE Spec2Model ----------------------------
(***************************************************************************)
(* Model of the jellyfish drift prediction pipeline                        *)
(* (src/src/services/driftService.ts, class DriftService).                 *)
(*                                                                         *)
(* Number representation.  The code computes in IEEE doubles; the model    *)
(* computes in fixed point:                                                *)
(*   - time            : milliseconds since a local midnight (epoch 0)     *)
(*   - wind speed      : centimetres per second (1000 = 10 m/s)            *)
(*   - wind direction  : whole degrees; where the rounding of the doubles  *)
(*                       decides the result (calculateAverageWind), less a *)
(*                       number of spacings of the doubles below 360       *)
(*   - distance, arc   : decimetres (10000 = 1 km)                         *)
(*   - latitude / longitude : decimetres of arc on the sphere of radius    *)
(*                       EARTH_RADIUS, DegArc decimetres to the degree     *)
(*   - confidence      : percent (98 = 0.98)                               *)
(*   - Math.random()   : tenths (0..9 for [0,1))                           *)
(*                                                                         *)
(* Geometry.  The spherical formulas of applyDrift and calculateDistance   *)
(* are evaluated exactly on the two great circles on which they reduce to  *)
(* arithmetic on arcs: a meridian (bearings 0 and 180, any latitude, with  *)
(* the fold of asin at a pole) and the equator (bearings 90 and 270 at     *)
(* latitude 0).  The wind series drawn by the model keep a run on one of   *)
(* the two circles.                                                        *)
(***************************************************************************)
EXTENDS Integers, Sequences, FiniteSets

VARIABLES
    now,            \* wall clock read by new Date() at the call
    pc,             \* "idle" | "loop" | "done" : position in predictDrift
    observation,    \* argument: [latitude, longitude]
    windData,       \* argument: sequence of [speed, direction, ulps, timestamp]
    days,           \* argument: number of days requested
    dailyWindData,  \* local: the compacted bucket sequence
    windowIdx,      \* for each bucket, the loop index `day` of groupWindDataByDay that pushed it
    day,            \* local: loop counter of predictDrift
    currentLat,     \* local: running position
    currentLon,
    predictions,    \* local, then result: sequence of DriftPrediction
    legs,           \* for each record, the locals of its iteration
    prev,           \* result of the previous call with the same arguments, or NoCall
    path,           \* result of generateDriftPath, or NoPath
    reduced,        \* argument and result of a direct call of calculateAverageWind, or NoCall
    projected,      \* arguments and results of applyDrift and of calculateDistance back, or NoCall
    page,           \* state of the Index page: isLoading, showResults, observation, predictions
    subs,           \* the form submissions: position in onSubmit / handleObservationSubmit, locals
    stored          \* localStorage item last_sea_coordinates, or Null

vars == <<now, pc, observation, windData, days, dailyWindData, windowIdx, day,
          currentLat, currentLon, predictions, legs, prev, path, reduced, projected,
          page, subs, stored>>

\* the variables of DriftService
driftVars == <<now, pc, observation, windData, days, dailyWindData, windowIdx, day,
               currentLat, currentLon, predictions, legs, prev, path, reduced, projected>>

\* the variables of the page and the form
pageVars == <<page, subs, stored>>

---------------------------------------------------------------------------
(* Bounds of the model *)

MaxSamples == 2
MaxDays == 5
MaxLongDays == 50
TwiceMaxDays == 2
ReduceMaxLen == 3
MaxForecast == 2
MaxSubmissions == 2

(* Program constants *)

JELLYFISH_DRIFT_FACTOR == 3
OCEAN_CURRENT_FACTOR == 5000
DAILY_UNCERTAINTY == 2
HOURS_PER_DAY == 24
UNCERTAINTY_SCALE == 100
CONFIDENCE_FLOOR == 10
WINDOW_COUNT == 5
FORECAST_DAYS == 5
ENTRIES_PER_DAY == 8
DegArc == 1111949

msPerDay == 24 * 60 * 60 * 1000
Pole == 90 * DegArc
HalfTurn == 180 * DegArc
FullTurn == 360 * DegArc

NoBucket == "undefined"
NoCall == <<>>
NoPath == <<>>
Null == <<>>

Abs(x) == IF x < 0 THEN -x ELSE x
Max(a, b) == IF a >= b THEN a ELSE b
Min(a, b) == IF a <= b THEN a ELSE b

\* IEEE division is symmetric in the sign; fixed point truncates the magnitude.
Quot(a, n) == IF a >= 0 THEN a \div n ELSE -((-a) \div n)

---------------------------------------------------------------------------
(* groupWindDataByDay *)

StartOfToday(t) == (t \div msPerDay) * msPerDay

\* new Date(); setDate(getDate() + 1); setHours(0, 0, 0, 0)
StartOfTomorrow(t) == ((t \div msPerDay) + 1) * msPerDay

InWindowClosedEnd(wind, dayStart, dayEnd) ==
    wind.timestamp >= dayStart /\ wind.timestamp <= dayEnd

\* the filter predicate
InWindow(wind, dayStart, dayEnd) ==
    wind.timestamp >= dayStart /\ wind.timestamp < dayEnd

DayData(wd, startOfTomorrow, d) ==
    LET dayStart == startOfTomorrow + (d * msPerDay)
        dayEnd == dayStart + msPerDay
    IN  SelectSeq(wd, LAMBDA wind : InWindow(wind, dayStart, dayEnd))

KeepAlways(dayData) == TRUE

\* if (dayData.length > 0)
KeepBucket(dayData) == Len(dayData) > 0

RECURSIVE GroupFrom(_, _, _, _)
\* the loop for (day = 0; day < 5; day++), grouped as pairs <<day, dayData>>
GroupFrom(wd, startOfTomorrow, d, grouped) ==
    IF d >= WINDOW_COUNT THEN grouped
    ELSE LET dayData == DayData(wd, startOfTomorrow, d)
         IN  GroupFrom(wd, startOfTomorrow, d + 1,
                       IF KeepBucket(dayData)
                       THEN Append(grouped, <<d, dayData>>)
                       ELSE grouped)

GroupWindDataByDay(wd, t) == GroupFrom(wd, StartOfTomorrow(t), 0, <<>>)

Buckets(g) == [k \in 1..Len(g) |-> g[k][2]]
BucketDays(g) == [k \in 1..Len(g) |-> g[k][1]]

---------------------------------------------------------------------------
(* calculateAverageWind *)

\* A sample's direction is `direction` whole degrees less `ulps` spacings of
\* the doubles below 360 (2^-44 degree): (90, 0) is 90, (360, 1) is the
\* largest double below 360, 359.99999999999994.

\* Math.sin / Math.cos of (direction * PI / 180) on the four cardinal
\* directions and just below 360, to the resolution of the wind components
SinDeg(dir) ==
    CASE dir = 0 -> 0 [] dir = 90 -> 1 [] dir = 180 -> 0 [] dir = 270 -> -1 [] dir = 360 -> 0
CosDegUnsigned(dir) ==
    CASE dir = 0 -> 1 [] dir = 90 -> 0 [] dir = 180 -> 1 [] dir = 270 -> 0 [] dir = 360 -> 1
CosDeg(dir) ==
    CASE dir = 0 -> 1 [] dir = 90 -> 0 [] dir = 180 -> -1 [] dir = 270 -> 0 [] dir = 360 -> 1

\* What the doubles Math.sin and Math.cos return beyond that, in units of
\* 3.0616e-17: Math.cos(90 * PI / 180) = 6.1232e-17,
\* Math.sin(180 * PI / 180) = 1.2246e-16, Math.cos(270 * PI / 180) = -1.8370e-16,
\* Math.sin(359.99999999999994 * PI / 180) = -1.1331e-15 (37.01 units); the
\* others are exactly 0, 1 or -1.
SinResidue(wind) ==
    CASE wind.direction = 180 -> 4
      [] wind.direction = 360 /\ wind.ulps = 1 -> -37
      [] OTHER -> 0
CosResidue(wind) ==
    CASE wind.direction = 90 -> 2
      [] wind.direction = 270 -> -6
      [] OTHER -> 0

RECURSIVE TotalSpeedX(_)
TotalSpeedX(b) ==
    IF b = <<>> THEN 0 ELSE Head(b).speed * SinDeg(Head(b).direction) + TotalSpeedX(Tail(b))

RECURSIVE TotalSpeedY(_)
TotalSpeedY(b) ==
    IF b = <<>> THEN 0 ELSE Head(b).speed * CosDeg(Head(b).direction) + TotalSpeedY(Tail(b))

\* the part of totalSpeedX and totalSpeedY below the resolution of the wind
\* components
RECURSIVE ResidueX(_)
ResidueX(b) ==
    IF b = <<>> THEN 0 ELSE Head(b).speed * SinResidue(Head(b)) + ResidueX(Tail(b))

RECURSIVE ResidueY(_)
ResidueY(b) ==
    IF b = <<>> THEN 0 ELSE Head(b).speed * CosResidue(Head(b)) + ResidueY(Tail(b))

\* Math.sqrt(x*x + y*y) for a vector on an axis
Hypot(x, y) == CASE y = 0 -> Abs(x) [] x = 0 -> Abs(y)

\* Math.atan2(x, y) * (180 / PI) for a vector on an axis; Math.atan2(0, 0) = 0
Atan2Deg(x, y) ==
    CASE x = 0 /\ y >= 0 -> 0
      [] x > 0 /\ y = 0 -> 90
      [] x = 0 /\ y < 0 -> 180
      [] x < 0 /\ y = 0 -> -90

\* The spacing of the doubles below 360 (2^-44 degree), as an angle in
\* radians, in tenths of the residue unit: 2^-44 * PI / 180 = 9.921e-16 =
\* 32.4 * 3.0616e-17.
UlpOf360 == 324

\* avgDirection += 360 for an arctangent of -(rx / y) radians, rx in residue
\* units: the sum is 360 less that small angle, rounded to the nearest
\* double.  The result is the number of spacings below 360; 0 is the double
\* 360 itself.
AddFullTurn(rx, y) == (10 * rx + (UlpOf360 \div 2) * y) \div (UlpOf360 * y)

\* lines 120-141: the vector average of a non-empty bucket.  `direction` is
\* in whole degrees, less `below` spacings of the doubles below 360.
VectorAverage(b) ==
    LET totalSpeedX == TotalSpeedX(b)
        totalSpeedY == TotalSpeedY(b)
        avgSpeedX == Quot(totalSpeedX, Len(b))
        avgSpeedY == Quot(totalSpeedY, Len(b))
        avgSpeed == Hypot(avgSpeedX, avgSpeedY)
    IN  IF totalSpeedX = 0 /\ totalSpeedY = 0
        THEN \* the winds cancel: what is left of the vector is the residue
             LET atan == Atan2Deg(ResidueX(b), ResidueY(b))
             IN  [speed |-> avgSpeed,
                  direction |-> IF atan < 0 THEN atan + 360 ELSE atan,
                  below |-> 0]
        ELSE IF totalSpeedX = 0 /\ totalSpeedY > 0 /\ ResidueX(b) < 0
        THEN \* a wind from just west of north: a negative arctangent
             [speed |-> avgSpeed, direction |-> 360,
              below |-> AddFullTurn(-ResidueX(b), totalSpeedY)]
        ELSE LET atan == Atan2Deg(avgSpeedX, avgSpeedY)
             IN  [speed |-> avgSpeed,
                  direction |-> IF atan < 0 THEN atan + 360 ELSE atan,
                  below |-> 0]

AverageWindEmptyFails(b) ==
    IF Len(b) = 0 THEN [speed |-> -1, direction |-> -1, below |-> 0]
    ELSE VectorAverage(b)

CalculateAverageWind(b) ==
    IF Len(b) = 0 THEN [speed |-> 0, direction |-> 0, below |-> 0]
    ELSE VectorAverage(b)

---------------------------------------------------------------------------
(* calculateDailyDrift, applyDrift, calculateDistance *)

DailyDriftNoCurrent(windSpeed, d, r) ==
    windSpeed * JELLYFISH_DRIFT_FACTOR * HOURS_PER_DAY + r * d * UNCERTAINTY_SCALE

DailyDriftFlatUncertainty(windSpeed, d, r) ==
    windSpeed * JELLYFISH_DRIFT_FACTOR * HOURS_PER_DAY + OCEAN_CURRENT_FACTOR
        + r * UNCERTAINTY_SCALE

\* windSpeed * 0.03 * 24 + 0.5 + Math.random() * day * 0.1, r the draw in tenths
CalculateDailyDrift(windSpeed, d, r) ==
    LET windDrift == windSpeed * JELLYFISH_DRIFT_FACTOR * HOURS_PER_DAY
        currentDrift == OCEAN_CURRENT_FACTOR
        uncertainty == r * d * UNCERTAINTY_SCALE
    IN  windDrift + currentDrift + uncertainty

\* asin folds a latitude carried over a pole back into [-90, 90]; atan2 then
\* adds half a turn to the longitude (its second argument is negative there)
AlongMeridian(l, lon) ==
    IF l > Pole THEN [latitude |-> 2 * Pole - l, longitude |-> lon + HalfTurn]
    ELSE IF l < -Pole THEN [latitude |-> -2 * Pole - l, longitude |-> lon + HalfTurn]
    ELSE [latitude |-> l, longitude |-> lon]

ApplyDrift(lat, lon, distance, direction) ==
    CASE direction = 0 -> AlongMeridian(lat + distance, lon)
      [] direction = 180 -> AlongMeridian(lat - distance, lon)
      [] direction = 90 /\ lat = 0 -> [latitude |-> 0, longitude |-> lon + distance]
      [] direction = 270 /\ lat = 0 -> [latitude |-> 0, longitude |-> lon - distance]

\* haversine: on one meridian, on the equator, on opposite meridians
CalculateDistance(lat1, lon1, lat2, lon2) ==
    CASE lon1 = lon2 -> Abs(lat2 - lat1)
      [] lon1 # lon2 /\ lat1 = 0 /\ lat2 = 0 ->
            LET d == Abs(lon2 - lon1) % FullTurn
            IN  IF d > HalfTurn THEN FullTurn - d ELSE d
      [] lon1 # lon2 /\ ~(lat1 = 0 /\ lat2 = 0) /\ Abs(lon2 - lon1) = HalfTurn ->
            2 * Pole - Abs(lat1 + lat2)

---------------------------------------------------------------------------
(* predictDrift *)

ResolveNoFallback(dwd, d) ==
    IF d <= Len(dwd) THEN dwd[d] ELSE NoBucket

ResolveFirstFallback(dwd, d) ==
    IF d <= Len(dwd) THEN dwd[d]
    ELSE IF Len(dwd) > 0 THEN dwd[1] ELSE NoBucket

ResolveEmptyDefault(dwd, d) ==
    IF d <= Len(dwd) THEN dwd[d]
    ELSE IF Len(dwd) > 0 THEN dwd[Len(dwd)] ELSE <<>>

\* dailyWindData[day - 1] || dailyWindData[dailyWindData.length - 1]
ResolveBucket(dwd, d) ==
    IF d <= Len(dwd) THEN dwd[d]
    ELSE IF Len(dwd) > 0 THEN dwd[Len(dwd)] ELSE NoBucket

ConfidenceNoFloor(d) == 100 - (d * DAILY_UNCERTAINTY)

\* Math.max(0.1, 1 - (day * this.DAILY_UNCERTAINTY))
Confidence(d) == Max(CONFIDENCE_FLOOR, 100 - (d * DAILY_UNCERTAINTY))

StartFromOrigin(obs, lat, lon) == [latitude |-> obs.latitude, longitude |-> obs.longitude]

\* the position handed to applyDrift
StartPosition(obs, lat, lon) == [latitude |-> lat, longitude |-> lon]

TotalDistanceCumulative(obs, preds, driftDistance, lat, lon) ==
    (IF preds = <<>> THEN 0 ELSE preds[Len(preds)].distance) + driftDistance

\* the distance field: calculateDistance(observation, current position)
TotalDistance(obs, preds, driftDistance, lat, lon) ==
    CalculateDistance(obs.latitude, obs.longitude, lat, lon)

RecordDayOffByOne(d, preds) == Len(preds)

\* the day field of the pushed record
RecordDay(d, preds) == d

GenerateDriftPathNoOrigin(preds, obs) ==
    [k \in 1..Len(preds) |->
        [longitude |-> preds[k].longitude,
         latitude  |-> preds[k].latitude,
         day       |-> preds[k].day]]

\* generateDriftPath: the observation as day 0, then one point per record
GenerateDriftPath(preds, obs) ==
    <<[longitude |-> obs.longitude, latitude |-> obs.latitude, day |-> 0]>>
        \o [k \in 1..Len(preds) |->
              [longitude |-> preds[k].longitude,
               latitude  |-> preds[k].latitude,
               day       |-> preds[k].day]]

---------------------------------------------------------------------------
(* LandSeaService, JellyfishForm.onSubmit, Index.handleObservationSubmit *)

\* JSON.stringify({ latitude, longitude })
Stringify(lat, lon) == <<"latitude", lat, "longitude", lon>>

\* JSON.parse of such an item
Parse(item) == [latitude |-> item[2], longitude |-> item[4]]

\* getLastSeaCoordinates: stored ? JSON.parse(stored) : null; the pair is
\* returned as a one-element sequence
GetLastSeaCoordinates(item) == IF item = Null THEN Null ELSE <<Parse(item)>>

\* storeSeaCoordinates: the new value of the item
StoreSeaCoordinates(lat, lon) == Stringify(lat, lon)

FinalAsSubmitted(data, isOverWater, lastSeaCoords) == data

\* onSubmit, lines 84-93: finalLatitude and finalLongitude
FinalCoordinates(data, isOverWater, lastSeaCoords) ==
    IF ~isOverWater /\ lastSeaCoords # Null THEN lastSeaCoords[1] ELSE data

\* handleObservationSubmit, lines 38-40
BeginLoading(pg, obs) ==
    [pg EXCEPT !.isLoading = TRUE, !.showResults = FALSE, !.observation = <<obs>>]

\* handleObservationSubmit, lines 69-71 and the finally of line 86
ShowPredictions(pg, obs, preds) ==
    [isLoading |-> FALSE, showResults |-> TRUE, observation |-> <<obs>>,
     predictions |-> preds]

\* handleObservationSubmit, the catch of lines 78-84 and the finally of line 86
AfterFailure(pg) == [pg EXCEPT !.isLoading = FALSE]

\* useState(false), useState(null), useState([]), useState(false)
InitialPage ==
    [isLoading |-> FALSE, showResults |-> FALSE, observation |-> Null, predictions |-> <<>>]

Submissions == 1..MaxSubmissions

\* a submission that has not been made: pc is the position in onSubmit and
\* handleObservationSubmit, data the submitted coordinates, hasKey whether
\* an API key is at hand, water the result of isOverWater, read the item
\* read by getLastSeaCoordinates, final the observation handed to
\* handleObservationSubmit, result the records returned by predictDrift,
\* overlap whether another submission was under way at any time since the
\* button was pressed
InitialSubmission ==
    [pc |-> "idle", data |-> [latitude |-> 0, longitude |-> 0], hasKey |-> FALSE,
     water |-> TRUE, read |-> Null, final |-> Null, result |-> Null,
     overlap |-> FALSE]

\* the positions of a submission whose handler has not returned
InFlight == {"awaitWater", "awaitCurrent", "awaitForecast", "predicting"}

Init ==
    /\ page = InitialPage
    /\ subs = [i \in Submissions |-> InitialSubmission]
    /\ stored = Null
    /\ now = 0
    /\ pc = "idle"
    /\ observation = [latitude |-> 0, longitude |-> 0]
    /\ windData = <<>>
    /\ days = 0
    /\ dailyWindData = <<>>
    /\ windowIdx = <<>>
    /\ day = 0
    /\ currentLat = 0
    /\ currentLon = 0
    /\ predictions = <<>>
    /\ legs = <<>>
    /\ prev = NoCall
    /\ path = NoPath
    /\ reduced = NoCall
    /\ projected = NoCall

\* lines 34-40 of predictDrift, entered with arguments (obs, wd, n) at wall clock t
Enter(obs, wd, n, t) ==
    LET grouped == GroupWindDataByDay(wd, t)
    IN  /\ now' = t
        /\ observation' = obs
        /\ windData' = wd
        /\ days' = n
        /\ predictions' = <<>>
        /\ legs' = <<>>
        /\ currentLat' = obs.latitude
        /\ currentLon' = obs.longitude
        /\ dailyWindData' = Buckets(grouped)
        /\ windowIdx' = BucketDays(grouped)
        /\ day' = 1
        /\ pc' = "loop"
        /\ path' = NoPath
        /\ UNCHANGED <<reduced, projected>>

LoopStopsEarly(d, n) == d < n

\* the loop condition day <= days
LoopCondition(d, n) == d <= n

\* one iteration of for (day = 1; day <= days; day++)
Iterate(draws) ==
    /\ pc = "loop"
    /\ LoopCondition(day, days)
    /\ LET dayWindData == ResolveBucket(dailyWindData, day)
       IN  IF dayWindData = NoBucket
           THEN UNCHANGED <<currentLat, currentLon, predictions, legs>>
           ELSE \E r \in draws :
                LET avgWind == CalculateAverageWind(dayWindData)
                    driftDistance == CalculateDailyDrift(avgWind.speed, day, r)
                    driftDirection == avgWind.direction
                    from == StartPosition(observation, currentLat, currentLon)
                    newPosition == ApplyDrift(from.latitude, from.longitude,
                                              driftDistance, driftDirection)
                    totalDistance == TotalDistance(observation, predictions, driftDistance,
                                                   newPosition.latitude, newPosition.longitude)
                    confidence == Confidence(day)
                IN  /\ currentLat' = newPosition.latitude
                    /\ currentLon' = newPosition.longitude
                    /\ predictions' = Append(predictions,
                          [day |-> RecordDay(day, predictions),
                           latitude |-> newPosition.latitude,
                           longitude |-> newPosition.longitude,
                           confidence |-> confidence,
                           windSpeed |-> avgWind.speed,
                           windDirection |-> avgWind.direction,
                           distance |-> totalDistance])
                    /\ legs' = Append(legs,
                          [bucket |-> dayWindData,
                           random |-> r,
                           driftDistance |-> driftDistance,
                           driftDirection |-> driftDirection])
    /\ day' = day + 1
    /\ UNCHANGED <<now, pc, observation, windData, days, dailyWindData, windowIdx, prev,
                   path, reduced, projected,
                   page, subs, stored>>

\* the loop condition fails: return predictions
Return ==
    /\ pc = "loop"
    /\ ~LoopCondition(day, days)
    /\ pc' = "done"
    /\ UNCHANGED <<now, observation, windData, days, dailyWindData, windowIdx, day,
                   currentLat, currentLon, predictions, legs, prev, path, reduced, projected,
                   page, subs, stored>>

---------------------------------------------------------------------------
(* Inputs drawn by the model *)

\* Math.random() in [0, 1), in tenths: the smallest and the largest draw
RandomDraws == {0, 9}

\* wall clock at a call: noon of day 0
Clock == {msPerDay \div 2}

\* wall clock at a repeated call: the same instant, or noon of day 1
LaterClock == {msPerDay \div 2, msPerDay + (msPerDay \div 2)}

\* sample timestamps: the last millisecond of day 0, the midnights that open
\* days 1, 3, 5 and 6, and a forecast entry three hours into day 2
Stamps ==
    { msPerDay - 1, msPerDay, 2 * msPerDay + 3 * 60 * 60 * 1000,
      3 * msPerDay, 5 * msPerDay, 6 * msPerDay }

\* an observation with the winds (speed, direction) that keep the run on one
\* great circle: on the meridian of Greenwich, and on the equator at the
\* antimeridian
Scenarios ==
    { [obs |-> [latitude |-> 0, longitude |-> 0],
       winds |-> {<<1000, 0>>, <<500, 180>>}],
      [obs |-> [latitude |-> 0, longitude |-> HalfTurn],
       winds |-> {<<1000, 90>>, <<500, 270>>}] }

Samples(winds) ==
    {[speed |-> w[1], direction |-> w[2], ulps |-> 0, timestamp |-> t] :
        w \in winds, t \in Stamps}

\* series of at most maxLen samples in ascending time, the order in which
\* WeatherService.getWindDataForDays pushes them
WindSeries(winds, maxLen) ==
    {s \in UNION {[1..n -> Samples(winds)] : n \in 0..maxLen} :
        \A i \in 1..(Len(s) - 1) : s[i].timestamp <= s[i + 1].timestamp}

\* no bucket of the series has samples that average to the zero vector (there
\* the code's direction is decided by the rounding residue of Math.sin(Math.PI))
NoCancel(wd, t) ==
    LET b == Buckets(GroupWindDataByDay(wd, t))
    IN  \A k \in 1..Len(b) :
           b[k] = <<>> \/ TotalSpeedX(b[k]) # 0 \/ TotalSpeedY(b[k]) # 0

---------------------------------------------------------------------------
(* Specification: calls of predictDrift *)

Call ==
    /\ pc = "idle"
    /\ \E sc \in Scenarios, n \in 1..MaxDays, t \in Clock :
       \E wd \in WindSeries(sc.winds, MaxSamples) :
          /\ NoCancel(wd, t)
          /\ Enter(sc.obs, wd, n, t)
    /\ prev' = NoCall
    /\ UNCHANGED pageVars

Step == Iterate(RandomDraws)

Next == Call \/ Step \/ Return

Spec == Init /\ [][Next]_vars

---------------------------------------------------------------------------
(* Specification: long runs, days up to MaxLongDays, one sample at most *)

\* the draw of a long run
LongDraws == {0}

CallLong ==
    /\ pc = "idle"
    /\ \E sc \in Scenarios, n \in 1..MaxLongDays, t \in Clock :
       \E wd \in WindSeries(sc.winds, 1) :
          Enter(sc.obs, wd, n, t)
    /\ prev' = NoCall
    /\ UNCHANGED pageVars

StepLong == Iterate(LongDraws)

NextLong == CallLong \/ StepLong \/ Return

SpecLong == Init /\ [][NextLong]_vars

---------------------------------------------------------------------------
(* Specification: a steady wind, one sample in each of the five windows, or
   no sample at all, and the path assembled from the returned records *)

ScenarioSpeeds == {1000, 500}

\* one sample per window, at noon, blowing the jellyfish east
ScenarioSeries(speed, t) ==
    [i \in 1..WINDOW_COUNT |->
        [speed |-> speed, direction |-> 90, ulps |-> 0,
         timestamp |-> StartOfTomorrow(t) + (i - 1) * msPerDay + (msPerDay \div 2)]]

CallScenario ==
    /\ pc = "idle"
    /\ \E n \in 1..MaxDays, t \in Clock :
       \E wd \in {ScenarioSeries(speed, t) : speed \in ScenarioSpeeds} \cup {<<>>} :
          Enter([latitude |-> 0, longitude |-> 0], wd, n, t)
    /\ prev' = NoCall
    /\ UNCHANGED pageVars

\* the caller passes the returned records and the observation to
\* generateDriftPath
AssemblePath ==
    /\ pc = "done"
    /\ path = NoPath
    /\ path' = GenerateDriftPath(predictions, observation)
    /\ UNCHANGED <<now, pc, observation, windData, days, dailyWindData, windowIdx, day,
                   currentLat, currentLon, predictions, legs, prev, reduced, projected,
                   page, subs, stored>>

NextScenario == CallScenario \/ Step \/ Return \/ AssemblePath

SpecScenario == Init /\ [][NextScenario]_vars

\* predictDrift is straight-line synchronous code: once entered, the next
\* iteration and the return are executed
SpecScenarioFair == SpecScenario /\ WF_vars(Step) /\ WF_vars(Return)

---------------------------------------------------------------------------
(* Specification: the page's pipeline, getWindDataForDays then predictDrift *)

\* WeatherService.getWindDataForDays once both requests have succeeded: the
\* current weather stamped with Date.now(), then the first n * 8 forecast
\* entries, their dt converted from seconds to milliseconds
GetWindDataForDays(current, list, n, t) ==
    <<[speed |-> current[1], direction |-> current[2], ulps |-> 0, timestamp |-> t]>>
        \o [i \in 1..Min(Len(list), n * ENTRIES_PER_DAY) |->
              [speed |-> list[i].speed, direction |-> list[i].deg, ulps |-> 0,
               timestamp |-> list[i].dt * 1000]]

\* Date.now() when the samples are assembled: noon, and the last millisecond
\* of the day
RetrievalClock == {msPerDay \div 2, msPerDay - 1}

\* dt of the forecast entries, in seconds after the midnight that starts the
\* day of the retrieval: 21:00 of that day, the midnight after it, hours
\* inside later day windows, and midnights six and seven days on
ForecastTimes == {75600, 86400, 183600, 442800, 518400, 604800}

\* forecast lists of at most maxLen entries, in ascending time as the
\* provider returns them
ForecastLists(winds, maxLen) ==
    LET entries == {[speed |-> w[1], deg |-> w[2], dt |-> t] :
                       w \in winds, t \in ForecastTimes}
    IN  {l \in UNION {[1..n -> entries] : n \in 0..maxLen} :
            \A i \in 1..(Len(l) - 1) : l[i].dt <= l[i + 1].dt}

\* handleObservationSubmit, lines 54-67: the wind data of five days is
\* fetched and handed to predictDrift, which reads the clock at that moment
\* or later
CallFetched ==
    /\ pc = "idle"
    /\ \E sc \in Scenarios, t0 \in RetrievalClock, elapsed \in {0, 1} :
       \E current \in sc.winds, list \in ForecastLists(sc.winds, MaxForecast) :
          LET wd == GetWindDataForDays(current, list, FORECAST_DAYS, t0)
          IN  /\ NoCancel(wd, t0 + elapsed)
              /\ Enter(sc.obs, wd, FORECAST_DAYS, t0 + elapsed)
    /\ prev' = NoCall
    /\ UNCHANGED pageVars

NextFetched == CallFetched \/ StepLong \/ Return

SpecFetched == Init /\ [][NextFetched]_vars

---------------------------------------------------------------------------
(* Specification: submissions of the form on the Index page *)

\* the points a user submits: three on the equator, 10 degrees apart
PagePoints ==
    {[latitude |-> 0, longitude |-> 0], [latitude |-> 0, longitude |-> 10 * DegArc],
     [latitude |-> 0, longitude |-> 20 * DegArc]}

\* the points for which the reverse geocoder returns an address with a road
GeocodedLand == {[latitude |-> 0, longitude |-> 10 * DegArc]}

\* isOverWater: false only for an address with a road, a house number or a
\* building; true whenever the request fails or throws
IsOverWater(pt) == IF pt \in GeocodedLand THEN {TRUE, FALSE} ELSE {TRUE}

\* what the weather provider returns: a steady wind that drifts eastwards
PageCurrent == <<1000, 90>>
PageForecast(t) ==
    [i \in 1..WINDOW_COUNT |->
        [speed |-> 1000, deg |-> 90,
         dt |-> (StartOfTomorrow(t) + (i - 1) * msPerDay + (msPerDay \div 2)) \div 1000]]

\* predictDrift is synchronous: nothing of the page runs while it does
NotPredicting == \A j \in Submissions : subs[j].pc # "predicting"

\* the user presses the submit button, which is disabled while isLoading;
\* onSubmit runs up to the await of isOverWater (line 82)
Submit(i) ==
    /\ subs[i].pc = "idle"
    /\ \A j \in 1..(i - 1) : subs[j].pc # "idle"
    /\ ~page.isLoading
    /\ NotPredicting
    /\ \E pt \in PagePoints, key \in BOOLEAN :
          LET others == \E j \in Submissions : subs[j].pc \in InFlight
          IN  subs' = [j \in Submissions |->
                         IF j = i
                         THEN [subs[i] EXCEPT !.pc = "awaitWater", !.data = pt,
                                              !.hasKey = key, !.overlap = others]
                         ELSE IF subs[j].pc \in InFlight
                              THEN [subs[j] EXCEPT !.overlap = TRUE]
                              ELSE subs[j]]
    /\ UNCHANGED <<page, stored>>
    /\ UNCHANGED driftVars

\* isOverWater has answered: onSubmit lines 84-120, then
\* handleObservationSubmit up to the await of line 54
WaterResolved(i) ==
    /\ subs[i].pc = "awaitWater"
    /\ NotPredicting
    /\ \E isOverWater \in IsOverWater(subs[i].data) :
          LET data == subs[i].data
              lastSeaCoords == IF isOverWater THEN Null ELSE GetLastSeaCoordinates(stored)
              final == FinalCoordinates(data, isOverWater, lastSeaCoords)
              sub == [subs[i] EXCEPT !.water = isOverWater,
                                     !.read = IF isOverWater THEN Null ELSE stored]
          IN  IF ~isOverWater /\ lastSeaCoords = Null
              THEN \* line 106: return
                   /\ subs' = [subs EXCEPT ![i] = [sub EXCEPT !.pc = "rejected"]]
                   /\ UNCHANGED <<page, stored>>
              ELSE /\ stored' = IF isOverWater
                                THEN StoreSeaCoordinates(data.latitude, data.longitude)
                                ELSE stored
                   /\ IF ~subs[i].hasKey
                      THEN \* handleObservationSubmit line 35: return
                           /\ subs' = [subs EXCEPT ![i] =
                                          [sub EXCEPT !.pc = "noKey", !.final = <<final>>]]
                           /\ UNCHANGED page
                      ELSE /\ subs' = [subs EXCEPT ![i] =
                                          [sub EXCEPT !.pc = "awaitCurrent", !.final = <<final>>]]
                           /\ page' = BeginLoading(page, final)
    /\ UNCHANGED driftVars

\* getWindDataForDays: the current weather has arrived (line 299)
CurrentArrives(i) ==
    /\ subs[i].pc = "awaitCurrent"
    /\ NotPredicting
    /\ subs' = [subs EXCEPT ![i] = [@ EXCEPT !.pc = "awaitForecast"]]
    /\ UNCHANGED <<page, stored>>
    /\ UNCHANGED driftVars

\* either request is not ok or throws: getWindDataForDays rethrows (line
\* 328), handleObservationSubmit catches (line 78) and ends (line 86)
WindFails(i) ==
    /\ subs[i].pc \in {"awaitCurrent", "awaitForecast"}
    /\ NotPredicting
    /\ subs' = [subs EXCEPT ![i] = [@ EXCEPT !.pc = "failed"]]
    /\ page' = AfterFailure(page)
    /\ UNCHANGED stored
    /\ UNCHANGED driftVars

\* the forecast has arrived: getWindDataForDays returns the samples and
\* handleObservationSubmit calls predictDrift with them (line 67)
ForecastArrives(i) ==
    /\ subs[i].pc = "awaitForecast"
    /\ NotPredicting
    /\ \E t \in Clock :
          Enter(subs[i].final[1],
                GetWindDataForDays(PageCurrent, PageForecast(t), FORECAST_DAYS, t),
                FORECAST_DAYS, t)
    /\ subs' = [subs EXCEPT ![i] = [@ EXCEPT !.pc = "predicting"]]
    /\ UNCHANGED <<prev, page, stored>>

\* predictDrift has returned: lines 69-71 and 86
Complete(i) ==
    /\ subs[i].pc = "predicting"
    /\ pc = "done"
    /\ subs' = [subs EXCEPT ![i] = [@ EXCEPT !.pc = "done", !.result = <<predictions>>]]
    /\ page' = ShowPredictions(page, subs[i].final[1], predictions)
    /\ UNCHANGED stored
    /\ UNCHANGED driftVars

SubmitForm == \E i \in Submissions : Submit(i)
WaterAnswer == \E i \in Submissions : WaterResolved(i)
CurrentAnswer == \E i \in Submissions : CurrentArrives(i)
WindFailure == \E i \in Submissions : WindFails(i)
ForecastAnswer == \E i \in Submissions : ForecastArrives(i)
Completion == \E i \in Submissions : Complete(i)

NextPage ==
    \/ SubmitForm \/ WaterAnswer \/ CurrentAnswer \/ WindFailure \/ ForecastAnswer
    \/ StepLong \/ Return \/ Completion

SpecPage == Init /\ [][NextPage]_vars

---------------------------------------------------------------------------
(* Specification: calculateAverageWind applied to one bucket *)

ReduceSpeeds == {0, 500, 1000}

\* directions along the meridian (0, 180, the largest double below 360) and
\* along the parallel (90, 270), as <<direction, ulps>>; the samples of one
\* bucket come from one of the two, so that their average lies on an axis
ReduceDirections == { {<<0, 0>>, <<180, 0>>, <<360, 1>>}, {<<90, 0>>, <<270, 0>>} }

ReduceSamples(dirs) ==
    {[speed |-> v, direction |-> d[1], ulps |-> d[2], timestamp |-> msPerDay] :
        v \in ReduceSpeeds, d \in dirs}

ReduceBuckets ==
    UNION {[1..n -> ReduceSamples(dirs)] : n \in 0..ReduceMaxLen, dirs \in ReduceDirections}

Reduce ==
    /\ reduced = NoCall
    /\ \E b \in ReduceBuckets :
          reduced' = <<[bucket |-> b, result |-> CalculateAverageWind(b)]>>
    /\ UNCHANGED <<now, pc, observation, windData, days, dailyWindData, windowIdx, day,
                   currentLat, currentLon, predictions, legs, prev, path, projected,
                   page, subs, stored>>

SpecReduce == Init /\ [][Reduce]_vars

---------------------------------------------------------------------------
(* Specification: applyDrift applied to one point, and calculateDistance
   from the projected point back to it *)

\* what Math.asin returns for an argument above 1, and everything computed
\* from it
NotANumber == [defined |-> FALSE]

\* The argument of Math.asin, sin(lat) cos(d) + cos(lat) sin(d) cos(bearing),
\* is the sine of the new latitude.  Where the projection ends on a pole
\* (to the resolution of the model) the sine is 1 or -1, and the rounding
\* of the products and of the sum leaves it there or carries it one spacing
\* of the doubles beyond: a magnitude of 1 or of 1.0000000000000002.  The
\* set holds the possible excesses, in spacings; there is no clamp.
AsinExcess(lat, distance, direction) ==
    IF \/ direction = 0 /\ lat + distance = Pole
       \/ direction = 180 /\ lat - distance = -Pole
    THEN {0, 1}
    ELSE {0}

\* applyDrift with the rounding of the argument of Math.asin
ApplyDriftRounded(lat, lon, distance, direction, excess) ==
    IF excess > 0 THEN NotANumber
    ELSE LET to == ApplyDrift(lat, lon, distance, direction)
         IN  [defined |-> TRUE, latitude |-> to.latitude, longitude |-> to.longitude]

\* calculateDistance from a result of applyDrift back to the start
DistanceBack(to, lat, lon) ==
    IF ~to.defined THEN NotANumber
    ELSE [defined |-> TRUE,
          distance |-> CalculateDistance(to.latitude, to.longitude, lat, lon)]

\* starts on a meridian: the equator, mid latitudes, and 0.5 km, 7.7 km and
\* 50 km short of either pole
ProjectLatitudes ==
    {0, 45 * DegArc, -45 * DegArc,
     Pole - 5000, Pole - 77000, Pole - 500000,
     -Pole + 5000, -Pole + 77000, -Pole + 500000}

\* 0 and 0.5 km short of the antimeridian
ProjectLongitudes == {0, HalfTurn - 5000}

\* 0.5 km, 7.7 km, 8.6 km, 50 km and 100 km, small against the radius of
\* 6371 km
ProjectDistances == {5000, 77000, 86000, 500000, 1000000}

Project ==
    /\ projected = NoCall
    /\ \E lat \in ProjectLatitudes, lon \in ProjectLongitudes,
          distance \in ProjectDistances, direction \in {0, 90, 180, 270} :
          /\ direction \in {90, 270} => lat = 0
          /\ \E excess \in AsinExcess(lat, distance, direction) :
                LET to == ApplyDriftRounded(lat, lon, distance, direction, excess)
                IN  projected' = <<[latitude |-> lat, longitude |-> lon,
                                    distance |-> distance, direction |-> direction,
                                    to |-> to, back |-> DistanceBack(to, lat, lon)]>>
    /\ UNCHANGED <<now, pc, observation, windData, days, dailyWindData, windowIdx, day,
                   currentLat, currentLon, predictions, legs, prev, path, reduced,
                   page, subs, stored>>

SpecProject == Init /\ [][Project]_vars

---------------------------------------------------------------------------
(* Specification: predictDrift called twice with the same arguments *)

CallFirst ==
    /\ pc = "idle"
    /\ \E sc \in Scenarios, n \in 1..TwiceMaxDays, t \in Clock :
       \E wd \in WindSeries(sc.winds, 1) :
          Enter(sc.obs, wd, n, t)
    /\ prev' = NoCall
    /\ UNCHANGED pageVars

\* the caller keeps the first result and calls again with the arguments of
\* the first call, at the same wall clock or later
CallAgain ==
    /\ pc = "done"
    /\ prev = NoCall
    /\ prev' = <<[predictions |-> predictions, dailyWindData |-> dailyWindData, now |-> now]>>
    /\ UNCHANGED pageVars
    /\ \E t \in {c \in LaterClock : c >= now} :
          Enter(observation, windData, days, t)

NextTwice == CallFirst \/ Step \/ Return \/ CallAgain

SpecTwice == Init /\ [][NextTwice]_vars

---------------------------------------------------------------------------
(* Properties *)

Position(rec) == [latitude |-> rec.latitude, longitude |-> rec.longitude]

Range(seq) == {seq[i] : i \in 1..Len(seq)}

RECURSIVE StepLength(_)
\* the accumulated length of the first k daily steps
StepLength(k) == IF k = 0 THEN 0 ELSE legs[k].driftDistance + StepLength(k - 1)

\* C1: every day d of 1..days that the loop has passed used the bucket at
\* position d-1 (0-based) of the compacted sequence when that position exists
\* and the last bucket of the sequence otherwise; with an empty compacted
\* sequence no day resolved a bucket.
C1_BucketResolution ==
    pc # "idle" =>
        /\ dailyWindData = <<>> => (predictions = <<>> /\ legs = <<>>)
        /\ dailyWindData # <<>> =>
              /\ Len(legs) = day - 1
              /\ Len(predictions) = day - 1
              /\ \A d \in 1..(day - 1) :
                    /\ predictions[d].day = d
                    /\ legs[d].bucket = IF d <= Len(dailyWindData)
                                        THEN dailyWindData[d]
                                        ELSE dailyWindData[Len(dailyWindData)]

\* C1 witness: a finished run over two buckets in which day 2 took its bucket
\* by position and day 3 fell back to the last bucket.
C1_Witness ==
    /\ pc = "done"
    /\ Len(dailyWindData) = 2
    /\ Len(predictions) >= 3
    /\ legs[2].bucket = dailyWindData[2]
    /\ legs[3].bucket = dailyWindData[2]
    /\ legs[1].bucket # dailyWindData[2]

\* C2: an iteration for which no bucket resolves (the compacted sequence is
\* empty) emits no record and leaves currentLat and currentLon as they were.
C2_SkipLeavesPosition ==
    [][(pc = "loop" /\ dailyWindData = <<>>)
          => (predictions' = predictions /\ currentLat' = currentLat /\ currentLon' = currentLon)]_vars

\* C2 witness: two days were skipped over a non-empty wind series none of
\* whose samples falls in a window; the position is still the observation's.
C2_Witness ==
    /\ pc = "loop"
    /\ windData # <<>>
    /\ dailyWindData = <<>>
    /\ day = 3
    /\ predictions = <<>>
    /\ currentLat = observation.latitude
    /\ currentLon = observation.longitude

\* C3: the position of record k is the projection, by the drift of its day,
\* of the position of record k-1, and of the observation for k = 1.
C3_Chained ==
    \A k \in 1..Len(predictions) :
        LET from == IF k = 1
                    THEN [latitude |-> observation.latitude, longitude |-> observation.longitude]
                    ELSE Position(predictions[k - 1])
        IN  Position(predictions[k]) =
                ApplyDrift(from.latitude, from.longitude,
                           legs[k].driftDistance, legs[k].driftDirection)

\* C3 witness: a second record, projected from a first record that lies
\* away from the observation, and differing from the projection of the
\* observation itself.
C3_Witness ==
    /\ Len(predictions) >= 2
    /\ Position(predictions[1]) #
          [latitude |-> observation.latitude, longitude |-> observation.longitude]
    /\ Position(predictions[2]) #
          ApplyDrift(observation.latitude, observation.longitude,
                     legs[2].driftDistance, legs[2].driftDirection)

\* C4: the distance of every record is the great-circle distance from the
\* observation to the record's position; once the wind has reversed between
\* two days it is smaller than the accumulated length of the daily steps.
C4_DistanceFromOrigin ==
    \A k \in 1..Len(predictions) :
        /\ predictions[k].distance =
              CalculateDistance(observation.latitude, observation.longitude,
                                predictions[k].latitude, predictions[k].longitude)
        /\ (\E j \in 1..(k - 1) : legs[j].driftDirection # legs[j + 1].driftDirection)
              => predictions[k].distance < StepLength(k)
        /\ predictions[k].distance <= StepLength(k)

\* C4 witness: the wind reversed between day 1 and day 2 and the second
\* record is nearer to the observation than the first.
C4_Witness ==
    /\ Len(predictions) >= 2
    /\ legs[1].driftDirection # legs[2].driftDirection
    /\ predictions[2].distance < predictions[1].distance
    /\ predictions[2].distance < StepLength(2)

\* C5: the records' days are strictly increasing, each in 1..days, and there
\* are at most `days` records.
C5_DaysIncreasing ==
    /\ Len(predictions) <= days
    /\ \A k \in 1..Len(predictions) : predictions[k].day \in 1..days
    /\ \A k \in 1..(Len(predictions) - 1) : predictions[k].day < predictions[k + 1].day

\* C5 witness: a finished run that returned one record for each of 4 days.
C5_Witness ==
    /\ pc = "done"
    /\ days = 4
    /\ Len(predictions) = 4

\* C6: the confidence of the record of day d is max(0.1, 1 - 0.02 d): it is
\* 1 - 0.02 d below day 45 and exactly 0.1 from day 45 on, whatever the wind
\* and the position, and it never increases from one record to the next.
C6_ConfidenceLaw ==
    /\ \A k \in 1..Len(predictions) :
          predictions[k].confidence =
              IF predictions[k].day >= 45 THEN 10 ELSE 100 - 2 * predictions[k].day
    /\ \A k \in 1..(Len(predictions) - 1) :
          predictions[k + 1].confidence <= predictions[k].confidence

\* C6 witness: a run with records for day 1 (0.98), day 44 (0.12) and
\* days 45 and 46 (0.1).
C6_Witness ==
    /\ Len(predictions) >= 46
    /\ predictions[1].confidence = 98
    /\ predictions[44].confidence = 12
    /\ predictions[45].confidence = 10
    /\ predictions[46].confidence = 10

\* the window of day index i: [start + i * 86400 s, start + (i + 1) * 86400 s)
InDay(wind, i) ==
    LET start == StartOfTomorrow(now)
    IN  /\ start + i * 86400000 <= wind.timestamp
        /\ wind.timestamp < start + (i + 1) * 86400000

\* C7: a sample is in the bucket of day index i if and only if its timestamp
\* lies in the half-open window of day i, and no sample is in two buckets.
C7_HalfOpenWindows ==
    pc # "idle" =>
        /\ \A k \in 1..Len(dailyWindData) : \A wind \in Range(windData) :
              wind \in Range(dailyWindData[k]) <=> InDay(wind, windowIdx[k])
        /\ \A i \in 0..4 : \A wind \in Range(windData) :
              InDay(wind, i) =>
                 \E k \in 1..Len(dailyWindData) :
                    windowIdx[k] = i /\ wind \in Range(dailyWindData[k])
        /\ \A k1, k2 \in 1..Len(dailyWindData) :
              k1 # k2 => Range(dailyWindData[k1]) \cap Range(dailyWindData[k2]) = {}

\* C7 witness: a sample exactly on the boundary between day index 1 and day
\* index 2 is in the bucket of day index 2, together with one in day index 1.
C7_Witness ==
    /\ pc # "idle"
    /\ Len(dailyWindData) = 2
    /\ windowIdx = <<1, 2>>
    /\ \E wind \in Range(dailyWindData[2]) :
          wind.timestamp = StartOfTomorrow(now) + 2 * 86400000

\* C8: every bucket is non-empty, the buckets are in ascending window order,
\* and a window has a bucket exactly when some sample falls in it.
C8_Compacted ==
    pc # "idle" =>
        /\ \A k \in 1..Len(dailyWindData) : Len(dailyWindData[k]) > 0
        /\ Len(windowIdx) = Len(dailyWindData)
        /\ \A k \in 1..(Len(windowIdx) - 1) : windowIdx[k] < windowIdx[k + 1]
        /\ \A i \in 0..4 :
              (\E k \in 1..Len(windowIdx) : windowIdx[k] = i)
                 <=> (\E wind \in Range(windData) : InDay(wind, i))

\* C8 witness: samples in day index 0 and day index 4 only; the three empty
\* windows between them contribute nothing.
C8_Witness ==
    /\ pc # "idle"
    /\ windowIdx = <<0, 4>>
    /\ Len(dailyWindData) = 2

\* C9: a second run with the arguments of the first, started at the same
\* wall clock, returns the records of the first run.
C9_Reproducible ==
    (pc = "done" /\ prev # NoCall /\ prev[1].now = now)
        => predictions = prev[1].predictions

\* C10: a second call with the arguments of the first, at whatever wall
\* clock, groups the samples into the buckets of the first call.
C10_BucketsIndependentOfClock ==
    (pc # "idle" /\ prev # NoCall)
        => dailyWindData = prev[1].dailyWindData


\* C11: every record's latitude lies in [-90, 90] degrees and its longitude
\* in [-180, 180] degrees.
C11_CoordinatesInRange ==
    \A k \in 1..Len(predictions) :
        /\ -Pole <= predictions[k].latitude
        /\ predictions[k].latitude <= Pole
        /\ -HalfTurn <= predictions[k].longitude
        /\ predictions[k].longitude <= HalfTurn


\* C12: the path has one point more than there are records; its first point
\* is the observation as day 0, its point k + 1 has the day, latitude and
\* longitude of record k, in the records' order; assembling it leaves the
\* records and the observation as they were.
C12_PathMirrorsRecords ==
    [][ (path = NoPath /\ path' # NoPath) =>
           /\ Len(path') = Len(predictions) + 1
           /\ path'[1] = [day |-> 0, latitude |-> observation.latitude,
                          longitude |-> observation.longitude]
           /\ \A k \in 1..Len(predictions) :
                 path'[k + 1] = [day |-> predictions[k].day,
                                latitude |-> predictions[k].latitude,
                                longitude |-> predictions[k].longitude]
           /\ predictions' = predictions
           /\ observation' = observation ]_vars

\* C12 witness: a path of four points assembled from three records that lie
\* at three different positions away from the observation.
C12_Witness ==
    /\ path # NoPath
    /\ Len(predictions) = 3
    /\ Len(path) = 4
    /\ path[2].longitude # path[1].longitude
    /\ path[3].longitude # path[2].longitude
    /\ path[4].longitude # path[3].longitude


\* C13: the displacement of day d under averaged wind speed w and draw r is
\* w * 0.03 * 24 + 0.5 + r * d * 0.1 km, hence at least w * 0.72 + 0.5 km
\* and strictly less than w * 0.72 + 0.5 + 0.1 d km.
C13_DailyDisplacement ==
    \A k \in 1..Len(legs) :
        LET w == predictions[k].windSpeed
            d == predictions[k].day
            r == legs[k].random
        IN  /\ r \in 0..9
            /\ legs[k].driftDistance = 72 * w + 5000 + r * d * 100
            /\ legs[k].driftDistance >= 72 * w + 5000
            /\ legs[k].driftDistance < 72 * w + 5000 + 1000 * d

\* C13 witness: a day-3 displacement with a draw of 0.9 under a 10 m/s wind,
\* above the lower bound by 0.27 km, and a day-1 displacement with a draw of 0
\* that meets the lower bound.
C13_Witness ==
    /\ Len(legs) >= 3
    /\ predictions[3].day = 3
    /\ predictions[3].windSpeed = 1000
    /\ legs[3].random = 9
    /\ legs[3].driftDistance = 72 * 1000 + 5000 + 2700
    /\ legs[1].random = 0
    /\ legs[1].driftDistance = 72 * predictions[1].windSpeed + 5000

\* C18: from (0, 0), with one sample of 10 m/s towards the east in each of
\* the five windows, five days requested and every draw 0, the run returns
\* five records for days 1..5, each 7.7 km due east of the previous
\* position, with confidences 0.98, 0.96, 0.94, 0.92, 0.90 and strictly
\* increasing distance from the observation; the path assembled from them
\* has six points and starts with day 0 at (0, 0).
C18_SteadyEastWind ==
    ( /\ path # NoPath
      /\ days = 5
      /\ observation = [latitude |-> 0, longitude |-> 0]
      /\ windData = ScenarioSeries(1000, now)
      /\ \A k \in 1..Len(legs) : legs[k].random = 0 )
    =>
    ( /\ Len(predictions) = 5
      /\ \A k \in 1..5 :
            /\ predictions[k].day = k
            /\ predictions[k].latitude = 0
            /\ predictions[k].longitude =
                  (IF k = 1 THEN 0 ELSE predictions[k - 1].longitude) + 77000
            /\ predictions[k].confidence = 100 - 2 * k
      /\ \A k \in 1..4 : predictions[k].distance < predictions[k + 1].distance
      /\ Len(path) = 6
      /\ path[1] = [day |-> 0, latitude |-> 0, longitude |-> 0] )

\* C18 witness: the scenario has run to its end and its path is assembled.
C18_Witness ==
    /\ path # NoPath
    /\ pc = "done"
    /\ days = 5
    /\ observation = [latitude |-> 0, longitude |-> 0]
    /\ windData = ScenarioSeries(1000, now)
    /\ Len(legs) = 5
    /\ \A k \in 1..Len(legs) : legs[k].random = 0
    /\ predictions[5].longitude = 5 * 77000


\* C14: the bucketing step examines as many day windows as the number of
\* days the prediction is given: every bucket belongs to a day index in
\* 0..days-1, and a sample is in no bucket exactly when it lies before the
\* start or at or after start + days * 86400 s.
C14_WindowsAsRequested ==
    pc # "idle" =>
        /\ \A k \in 1..Len(windowIdx) : windowIdx[k] \in 0..(days - 1)
        /\ \A wind \in Range(windData) :
              (\A k \in 1..Len(dailyWindData) : wind \notin Range(dailyWindData[k]))
                 <=> \/ wind.timestamp < StartOfTomorrow(now)
                     \/ wind.timestamp >= StartOfTomorrow(now) + days * 86400000


\* C19: a run of five days in which neither day 4 nor day 5 has a bucket of
\* its own or a last bucket to fall back on ends without error and returns
\* at most three records, their days strictly increasing.
C19_GapTolerance ==
    ( /\ pc = "done"
      /\ days = 5
      /\ \A d \in {4, 5} : d > Len(dailyWindData) /\ Len(dailyWindData) = 0 )
    =>
    ( /\ Len(predictions) <= 3
      /\ \A k \in 1..(Len(predictions) - 1) :
            predictions[k].day < predictions[k + 1].day )

\* C19 witness: a finished run of five days over a series whose samples all
\* lie outside the five windows, and one over the empty series, would both
\* do; this is the first.
C19_Witness ==
    /\ pc = "done"
    /\ days = 5
    /\ day = 6
    /\ windData # <<>>
    /\ dailyWindData = <<>>
    /\ Len(predictions) <= 3


\* C20: a run that has entered the loop returns, and it returns when the day
\* counter has been advanced exactly `days` times; every iteration advances
\* the counter by one, and an iteration that finds no bucket adds no record.
C20_Terminates ==
    /\ (pc = "loop") ~> (pc = "done" /\ day = days + 1)
    /\ [][ (pc = "loop" /\ pc' = "loop") =>
              /\ day' = day + 1
              /\ day \in 1..days
              /\ (ResolveBucket(dailyWindData, day) = NoBucket
                     => predictions' = predictions)
              /\ (ResolveBucket(dailyWindData, day) # NoBucket
                     => Len(predictions') = Len(predictions) + 1) ]_vars
    /\ [](pc = "done" => day = days + 1)

\* C20 witness: a run of five days over the empty series has returned after
\* five iterations, all of them skipped.
C20_Witness ==
    /\ pc = "done"
    /\ days = 5
    /\ day = 6
    /\ windData = <<>>
    /\ predictions = <<>>


\* C15: the average of an empty bucket is speed 0 and direction 0.
C15_EmptyBucket ==
    (reduced # NoCall /\ reduced[1].bucket = <<>>)
        => reduced[1].result = [speed |-> 0, direction |-> 0, below |-> 0]

\* C15 witness: calculateAverageWind has returned for the empty bucket.
C15_Witness ==
    /\ reduced # NoCall
    /\ reduced[1].bucket = <<>>
    /\ reduced[1].result.speed = 0

\* C16: the average of every bucket has a speed of at least 0 and a
\* direction of at least 0 and less than 360; 360 itself is not returned.
C16_DirectionHalfOpen ==
    reduced # NoCall =>
        /\ reduced[1].result.speed >= 0
        /\ reduced[1].result.direction >= 0
        /\ \/ reduced[1].result.direction < 360
           \/ reduced[1].result.direction = 360 /\ reduced[1].result.below > 0

\* the bucket holds n >= 1 copies of one sample
Identical(b) == Len(b) >= 1 /\ \A k \in 1..Len(b) : b[k] = b[1]

\* the bucket holds two samples of equal speed, one towards 0 and one
\* towards 180 degrees
Opposed(b) ==
    /\ Len(b) = 2
    /\ b[1].speed = b[2].speed
    /\ {<<b[1].direction, b[1].ulps>>, <<b[2].direction, b[2].ulps>>} = {<<0, 0>>, <<180, 0>>}

\* C17 as stated: opposed samples of equal speed average to speed 0, and
\* identical samples average to the speed and direction of the sample.
C17_AsStated ==
    reduced # NoCall =>
        LET b == reduced[1].bucket
            r == reduced[1].result
        IN  /\ Opposed(b) => r.speed = 0
            /\ Identical(b) =>
                  /\ r.speed = b[1].speed
                  /\ r.direction = b[1].direction
                  /\ r.below = b[1].ulps

\* C17: opposed samples of equal speed average to speed 0; identical
\* samples of positive speed average to the speed and direction of the
\* sample; identical samples of speed 0 average to speed 0 and direction 0.
C17_VectorAverage ==
    reduced # NoCall =>
        LET b == reduced[1].bucket
            r == reduced[1].result
        IN  /\ Opposed(b) => r.speed = 0
            /\ (Identical(b) /\ b[1].speed > 0) =>
                  /\ r.speed = b[1].speed
                  /\ r.direction = b[1].direction
                  /\ r.below = b[1].ulps
            /\ (Identical(b) /\ b[1].speed = 0) =>
                  r = [speed |-> 0, direction |-> 0, below |-> 0]

\* C17 witness: two samples of 5 m/s towards 0 and 180 degrees have averaged
\* to speed 0.
C17_Witness ==
    /\ reduced # NoCall
    /\ Opposed(reduced[1].bucket)
    /\ reduced[1].bucket[1].speed = 500
    /\ reduced[1].result.speed = 0


\* some sample of the series lies in day window i
WindowHasSample(i) == \E wind \in Range(windData) : InDay(wind, i)

\* C25: the number of records is all or nothing: when some day window holds
\* a sample a finished run has returned exactly `days` records, for the days
\* 1..days in order, and when none does it has returned no record.
C25_AllOrNothing ==
    pc = "done" =>
        /\ (\E i \in 0..4 : WindowHasSample(i)) =>
              /\ Len(predictions) = days
              /\ \A k \in 1..days : predictions[k].day = k
        /\ (\A i \in 0..4 : ~WindowHasSample(i)) => predictions = <<>>
        /\ ~(Len(predictions) \in 1..(days - 1))

\* C25 witness: a finished run of four days over a series whose only sample
\* lies in the last window has returned four records.
C25_Witness ==
    /\ pc = "done"
    /\ days = 4
    /\ windowIdx = <<4>>
    /\ Len(predictions) = 4

\* C26: a record whose day d is at most the number of buckets uses the
\* samples of one day window, which is window d or a later one, and is
\* window d exactly when the windows 1..d all hold a sample.
C26_PositionalNeverEarlier ==
    \A k \in 1..Len(predictions) :
        LET d == predictions[k].day
        IN  d <= Len(dailyWindData) =>
              /\ legs[k].bucket = dailyWindData[d]
              /\ \A wind \in Range(legs[k].bucket) : InDay(wind, windowIdx[d])
              /\ windowIdx[d] >= d - 1
              /\ (windowIdx[d] = d - 1) <=> (\A i \in 0..(d - 1) : WindowHasSample(i))

\* C26 witness: the record of day 2 uses the samples of the fifth window,
\* three windows later than its own, because windows 2..4 are empty.
C26_Witness ==
    /\ Len(predictions) >= 2
    /\ predictions[2].day = 2
    /\ windowIdx = <<0, 4>>
    /\ legs[2].bucket = dailyWindData[2]
    /\ \A wind \in Range(legs[2].bucket) : InDay(wind, 4)


\* C27: the sample stamped with the retrieval time, the first of the series
\* that getWindDataForDays returns, lies before the start of the first day
\* window of the predictDrift call that follows, is in no bucket, and is in
\* no bucket used for a record; every sample used for a record is a
\* forecast entry.
C27_CurrentSampleUnused ==
    pc # "idle" =>
        /\ windData[1].timestamp <= now
        /\ windData[1].timestamp < StartOfTomorrow(now)
        /\ \A k \in 1..Len(dailyWindData) : windData[1] \notin Range(dailyWindData[k])
        /\ \A k \in 1..Len(legs) :
              Range(legs[k].bucket) \subseteq {windData[i] : i \in 2..Len(windData)}

\* C27 witness: the samples were assembled in the last millisecond of a day
\* and predictDrift read the clock at the midnight after it; the run has
\* returned records driven by a forecast entry.
C27_Witness ==
    /\ pc = "done"
    /\ windData[1].timestamp = msPerDay - 1
    /\ now = msPerDay
    /\ Len(predictions) = 5
    /\ dailyWindData # <<>>


\* C23: the distance measured from the projected point back to the start is
\* within 0.1% of the distance of the projection.
C23_RoundTrip ==
    projected # NoCall =>
        /\ projected[1].back.defined
        /\ 1000 * Abs(projected[1].back.distance - projected[1].distance)
              <= projected[1].distance

\* C24: the latitude returned by applyDrift is a defined number.
C24_LatitudeDefined ==
    projected # NoCall => projected[1].to.defined

---------------------------------------------------------------------------
(* Submissions of the form *)

\* the positions of a submission that was handed to handleObservationSubmit
\* with an API key
Handed == {"awaitCurrent", "awaitForecast", "predicting", "done", "failed"}

\* C21: a submission classified as land while an over-water pair is stored
\* hands handleObservationSubmit the stored pair, not the submitted one,
\* from before the wind fetch starts; predictDrift runs on the stored pair
\* and its first record lies downwind of the stored pair
C21_StoredPairSubstituted ==
    \A i \in Submissions :
        (subs[i].pc \in Handed \cup {"noKey"} /\ ~subs[i].water) =>
            /\ subs[i].read # Null
            /\ subs[i].final = <<Parse(subs[i].read)>>
            /\ subs[i].pc = "predicting" => observation = Parse(subs[i].read)
            /\ subs[i].pc = "done" =>
                   /\ subs[i].result # Null
                   /\ subs[i].result[1][1].longitude - Parse(subs[i].read).longitude
                          \in 1..DegArc

C21_Witness ==
    \E i \in Submissions :
        /\ subs[i].pc = "done"
        /\ ~subs[i].water
        /\ subs[i].final # <<subs[i].data>>
        /\ page.observation = subs[i].final

\* C22: when the wind retrieval of a submission fails, predictDrift is not
\* run and gets no samples, the held predictions are unchanged and
\* showResults is false
C22_ShowResultsStaysFalse ==
    [][\A i \in Submissions :
          (subs[i].pc # "failed" /\ subs'[i].pc = "failed") =>
              /\ UNCHANGED driftVars
              /\ page'.predictions = page.predictions
              /\ ~page'.showResults
      ]_vars

\* C22 apart from the state of showResults: a submission fails only while
\* it awaits one of the two provider requests; the failing step passes no
\* samples to predictDrift and does not run it, leaves the held predictions
\* and showResults as they were, and
\* showResults is then false unless another submission was under way since
\* the button was pressed; a failed submission never gets a result
C22_FailureLeavesResults ==
    [][\A i \in Submissions :
          /\ (subs[i].pc # "failed" /\ subs'[i].pc = "failed") =>
                /\ subs[i].pc \in {"awaitCurrent", "awaitForecast"}
                /\ UNCHANGED driftVars
                /\ page'.predictions = page.predictions
                /\ page'.showResults = page.showResults
                /\ page'.observation = page.observation
                /\ ~subs[i].overlap => ~page'.showResults
          /\ subs[i].pc = "failed" => (subs'[i].pc = "failed" /\ subs'[i].result = Null)
      ]_vars

\* the submission handed to handleObservationSubmit with an API key whose
\* button press was the latest
LastHanded ==
    CHOOSE i \in Submissions :
        /\ subs[i].pc \in Handed
        /\ \A j \in Submissions : subs[j].pc \in Handed => j <= i

AwaitingWind == \E i \in Submissions : subs[i].pc \in {"awaitCurrent", "awaitForecast"}

AllFinished == \A i \in Submissions : subs[i].pc \notin InFlight

ShowsLatest ==
    /\ subs[LastHanded].pc = "done"
    /\ page.observation = subs[LastHanded].final
    /\ page.predictions = subs[LastHanded].result[1]

\* C28: isLoading is true whenever a submission awaits wind data, and when
\* every submission has finished the results on display are the observation
\* and the predictions of the submission made last
C28_LoadingAndLatest ==
    /\ AwaitingWind => page.isLoading
    /\ (AllFinished /\ page.showResults) => ShowsLatest

\* C28 holds as long as no two submissions are under way together
C28_WithoutOverlap ==
    (\A i \in Submissions : ~subs[i].overlap) => C28_LoadingAndLatest

\* the step in which isOverWater answers submission i
Classified(i) == subs[i].pc = "awaitWater" /\ subs'[i].pc # "awaitWater"

\* a submission classified as land writes nothing to last_sea_coordinates,
\* and ends without invoking onObservationSubmit when nothing is stored
LandWritesNothing(i) ==
    (Classified(i) /\ ~subs'[i].water) =>
        /\ stored' = stored
        /\ stored = Null => (subs'[i].pc = "rejected" /\ subs'[i].final = Null)
        /\ stored # Null => subs'[i].final # Null

\* the stored pair changes only to coordinates classified as over water in
\* the same step
StoredWhenWater ==
    stored' # stored =>
        \E i \in Submissions :
            /\ Classified(i)
            /\ subs'[i].water
            /\ stored' = Stringify(subs[i].data.latitude, subs[i].data.longitude)

\* C29: coordinates classified as land in a submission are not written to
\* last_sea_coordinates and are not passed to onObservationSubmit; with no
\* stored pair the submission ends without invoking onObservationSubmit; the
\* stored pair only holds coordinates classified as over water when stored
C29_LandNeverEscapes ==
    [][/\ \A i \in Submissions :
            /\ LandWritesNothing(i)
            /\ (Classified(i) /\ ~subs'[i].water) => subs'[i].final # <<subs[i].data>>
       /\ StoredWhenWater
      ]_vars

\* C29 without the part that fails: what is passed to onObservationSubmit
\* for a submission classified as land is the stored pair
C29_StoredPairPassed ==
    [][/\ \A i \in Submissions :
            /\ LandWritesNothing(i)
            /\ (Classified(i) /\ ~subs'[i].water /\ stored # Null) =>
                   subs'[i].final = <<Parse(stored)>>
       /\ StoredWhenWater
      ]_vars
====
